---- MODULE Spec2Model ----
(***************************************************************************)
(* Model of runtime-overrides (src/main.rs): one command-line run clones   *)
(* or reuses a source tree, checks out a target ref, builds the tracing    *)
(* runtime, moves the produced wasm under overridden-runtimes/ and writes  *)
(* its digest next to it.  The file system persists from one run of the    *)
(* program to the next; everything else is per-process state.              *)
(*                                                                         *)
(* Strings that undergo a case conversion are sequences of one-character   *)
(* strings; paths are sequences of components; Str and PathStr give the    *)
(* text the program would print.                                           *)
(***************************************************************************)
EXTENDS Integers, Sequences, FiniteSets, TLC

VARIABLES
    run_no,     \* number of the current process run (1..MaxRuns)
    argv,       \* command line of the current run
    pc,         \* position of the run inside main
    runtime,    \* Cli.runtime after parsing ("none" before)
    target,     \* Cli.target after parsing
    local,      \* the local bindings of main that hold paths and names
    cwd,        \* process working directory, relative to the start directory
    calls,      \* the side-effecting steps this run has executed, in order
    stdout,     \* lines printed by this run
    exitCode,   \* -1 while running, then the process exit code
    dirs,       \* directories that exist (paths relative to the start directory)
    files,      \* files that exist: path -> content
    tree,       \* git work trees: clone directory -> [head |-> checked-out ref]
    last_out,   \* what the environment did in the step executed last
    history     \* (variant, target, paths) computed by earlier runs

vars == <<run_no, argv, pc, runtime, target, local, cwd, calls, stdout,
          exitCode, dirs, files, tree, last_out, history>>

\* Number of consecutive runs of the program that are explored.
MaxRuns == 2

(***************************************************************************)
(* Strings                                                                 *)
(***************************************************************************)
UpperAlpha ==
    <<"A","B","C","D","E","F","G","H","I","J","K","L","M",
      "N","O","P","Q","R","S","T","U","V","W","X","Y","Z">>

LowerAlpha ==
    <<"a","b","c","d","e","f","g","h","i","j","k","l","m",
      "n","o","p","q","r","s","t","u","v","w","x","y","z">>

\* u8::to_ascii_lowercase on one character.
to_ascii_lowercase_char(c) ==
    IF \E i \in 1..Len(UpperAlpha) : UpperAlpha[i] = c
    THEN LowerAlpha[CHOOSE i \in 1..Len(UpperAlpha) : UpperAlpha[i] = c]
    ELSE c

\* str::to_ascii_lowercase.
to_ascii_lowercase(s) == [i \in 1..Len(s) |-> to_ascii_lowercase_char(s[i])]

\* str::eq_ignore_ascii_case.
eq_ignore_ascii_case(a, b) == to_ascii_lowercase(a) = to_ascii_lowercase(b)

RECURSIVE Str(_)
\* The text of a character sequence.
Str(s) == IF s = <<>> THEN "" ELSE Head(s) \o Str(Tail(s))

RECURSIVE PathStr(_)
\* The text of a path: its components joined by "/".
PathStr(p) ==
    IF p = <<>> THEN ""
    ELSE IF Len(p) = 1 THEN p[1]
    ELSE p[1] \o "/" \o PathStr(Tail(p))

(***************************************************************************)
(* Variant registry (enum Runtime and its impl)                            *)
(***************************************************************************)
Runtime == {"Darwinia", "Crab", "Pangoro", "Pangolin"}

\* format!("{:?}", self): the variant's identifier, character by character.
name(self) ==
    CASE self = "Darwinia" -> <<"D","a","r","w","i","n","i","a">>
      [] self = "Crab"     -> <<"C","r","a","b">>
      [] self = "Pangoro"  -> <<"P","a","n","g","o","r","o">>
      [] self = "Pangolin" -> <<"P","a","n","g","o","l","i","n">>

lowercase_name(self) == Str(to_ascii_lowercase(name(self)))

\* The two arms of match_runtimes exchanged.
match_runtimes_swapped(self, a, b) ==
    CASE self \in {"Darwinia", "Crab"}    -> b
      [] self \in {"Pangoro", "Pangolin"} -> a

match_runtimes(self, a, b) ==
    CASE self \in {"Darwinia", "Crab"}    -> a
      [] self \in {"Pangoro", "Pangolin"} -> b

repository(self) == match_runtimes(self, "darwinia", "darwinia-common")

github(self) == "https://github.com/darwinia-network/" \o repository(self)

\* Runtime::path, as path components.
path(self) ==
    match_runtimes(self, <<"runtime">>, <<"node", "runtime">>)
        \o <<lowercase_name(self)>>

(***************************************************************************)
(* Command line (struct Cli, parsed by clap)                               *)
(***************************************************************************)
\* A command-line option: absent, or present with a value.
Absent(empty) == [given |-> FALSE, value |-> empty]
Given(v) == [given |-> TRUE, value |-> v]

\* The command lines that are tried: every variant, in canonical, inverted,
\* upper, lower and mixed case, with and without --target; a name that is
\* not a variant; and no --runtime at all.
Argv ==
    { [runtime |-> Given(<<"D","a","r","w","i","n","i","a">>), target |-> Absent("")],
      [runtime |-> Given(<<"d","A","R","W","I","N","I","A">>), target |-> Given("v1.2.3")],
      [runtime |-> Given(<<"C","R","A","B">>), target |-> Given("v1.2.3")],
      [runtime |-> Given(<<"p","a","n","g","o","r","o">>), target |-> Absent("")],
      [runtime |-> Given(<<"P","a","N","g","O","l","I","n">>), target |-> Given("v1.2.3")],
      [runtime |-> Given(<<"P","a","n","g","o","l","i">>), target |-> Given("v1.2.3")],
      [runtime |-> Absent(<<>>), target |-> Given("v1.2.3")] }

\* The value clap's ArgEnum derive accepts for a variant: its identifier in
\* kebab case, which for a one-word identifier is the identifier lowercased.
to_possible_value(v) == to_ascii_lowercase(name(v))

\* PossibleValue::matches as it would be without ignore_case.
matches_case_sensitive(v, value) == to_possible_value(v) = value

\* PossibleValue::matches under ignore_case = true.
matches(v, value) == eq_ignore_ascii_case(to_possible_value(v), value)

\* ArgEnum::from_str: the variant whose possible value matches, or "none".
from_str(value) ==
    IF \E v \in Runtime : matches(v, value)
    THEN CHOOSE v \in Runtime : matches(v, value)
    ELSE "none"

\* default_value = "main"
DefaultTarget == "main"

(***************************************************************************)
(* File system and working directory                                       *)
(***************************************************************************)
Last(p) == p[Len(p)]
Parent(p) == SubSeq(p, 1, Len(p) - 1)
Prefixes(p) == {SubSeq(p, 1, n) : n \in 1..Len(p)}

RECURSIVE Walk(_, _)
\* The directory reached from base by following the components of rel.
Walk(base, rel) ==
    IF rel = <<>> THEN base
    ELSE IF Head(rel) = ".." /\ base # <<>> /\ Last(base) # ".."
         THEN Walk(Parent(base), Tail(rel))
         ELSE Walk(Append(base, Head(rel)), Tail(rel))

\* The start directory and its ancestors exist.
IsDir(p) == p = <<>> \/ p \in dirs \/ Head(p) = ".."

\* Path::exists for a path given relative to the working directory.
exists(rel) == IsDir(Walk(cwd, rel)) \/ Walk(cwd, rel) \in DOMAIN files

Put(f, p, c) == (p :> c) @@ f
Remove(f, p) == [q \in DOMAIN f \ {p} |-> f[q]]

EmptyFile == [kind |-> "empty", ref |-> "", run |-> 0]

(***************************************************************************)
(* Paths and names computed by main                                        *)
(***************************************************************************)
\* line 82
runtime_source_code_path(rt) == <<"build", repository(rt)>>

\* line 95
runtime_manifest(rt) == path(rt) \o <<"Cargo.toml">>

\* The artifact name built from the canonical name instead of the lowercase one.
name_prefix_canonical(runtime_lowercase_name, tg) ==
    Str(name(runtime)) \o "-" \o tg \o "-tracing-runtime"

\* line 125
name_prefix(runtime_lowercase_name, tg) ==
    runtime_lowercase_name \o "-" \o tg \o "-tracing-runtime"

\* line 126
wasms_dir(runtime_lowercase_name) ==
    <<"overridden-runtimes", runtime_lowercase_name, "wasms">>

\* line 127
digests_dir(runtime_lowercase_name) ==
    <<"overridden-runtimes", runtime_lowercase_name, "digests">>

\* line 132
wasm_path(wdir, prefix) == wdir \o <<prefix \o ".compact.compressed.wasm">>

\* line 133
digest_path(ddir, prefix) == ddir \o <<prefix \o ".json">>

\* lines 136-141: where the toolchain leaves the compiled runtime
build_output(rt, runtime_lowercase_name) ==
    <<"build", repository(rt), "target", "release", "wbuild",
      runtime_lowercase_name \o "-runtime",
      runtime_lowercase_name \o "_runtime.compact.compressed.wasm">>

\* The same file as the toolchain names it, from inside the source tree.
build_output_in_tree(runtime_lowercase_name) ==
    <<"target", "release", "wbuild",
      runtime_lowercase_name \o "-runtime",
      runtime_lowercase_name \o "_runtime.compact.compressed.wasm">>

\* Going up one directory only.
RestoreDirOneUp == <<"..">>

\* line 123
RestoreDir == <<"..", "..">>

NoLocal ==
    [runtime_source_code_path |-> <<>>, runtime_manifest |-> <<>>,
     runtime_lowercase_name |-> "", name_prefix |-> "",
     wasms_dir |-> <<>>, digests_dir |-> <<>>,
     wasm_path |-> <<>>, digest_path |-> <<>>, wasm |-> EmptyFile]

(***************************************************************************)
(* Control flow of main                                                    *)
(***************************************************************************)
\* main with the build made before the source is fetched and checked out.
SuccBuildFirst(step) ==
    CASE step = "clone"         -> "chdir_in"
      [] step = "chdir_in"      -> "clean"
      [] step = "clean"         -> "build"
      [] step = "build"         -> "fetch"
      [] step = "fetch"         -> "checkout"
      [] step = "checkout"      -> "chdir_out"
      [] step = "chdir_out"     -> "mkdir_wasms"
      [] step = "mkdir_wasms"   -> "mkdir_digests"
      [] step = "mkdir_digests" -> "rename"
      [] step = "rename"        -> "subwasm"
      [] step = "subwasm"       -> "create"
      [] step = "create"        -> "serialize"
      [] step = "serialize"     -> "print"
      [] step = "print"         -> "done"

\* main with the digest written before the artifact is moved.
SuccDigestFirst(step) ==
    CASE step = "clone"         -> "chdir_in"
      [] step = "chdir_in"      -> "fetch"
      [] step = "fetch"         -> "checkout"
      [] step = "checkout"      -> "clean"
      [] step = "clean"         -> "build"
      [] step = "build"         -> "chdir_out"
      [] step = "chdir_out"     -> "mkdir_wasms"
      [] step = "mkdir_wasms"   -> "mkdir_digests"
      [] step = "mkdir_digests" -> "create"
      [] step = "create"        -> "serialize"
      [] step = "serialize"     -> "rename"
      [] step = "rename"        -> "subwasm"
      [] step = "subwasm"       -> "print"
      [] step = "print"         -> "done"

\* The statement that follows each step of main when the step returns Ok.
Succ(step) ==
    CASE step = "clone"         -> "chdir_in"
      [] step = "chdir_in"      -> "fetch"
      [] step = "fetch"         -> "checkout"
      [] step = "checkout"      -> "clean"
      [] step = "clean"         -> "build"
      [] step = "build"         -> "chdir_out"
      [] step = "chdir_out"     -> "mkdir_wasms"
      [] step = "mkdir_wasms"   -> "mkdir_digests"
      [] step = "mkdir_digests" -> "rename"
      [] step = "rename"        -> "subwasm"
      [] step = "subwasm"       -> "create"
      [] step = "create"        -> "serialize"
      [] step = "serialize"     -> "print"
      [] step = "print"         -> "done"

\* The clone made whether or not the directory exists.
NeedsCloneAlways(dir) == TRUE

\* line 85: the clone is made only when the clone directory does not exist.
NeedsClone(dir) == ~exists(dir)

\* An Err that is dropped instead of returned.
QuestionIgnored(res, next) == next

\* The `?` operator: an Err leaves main at once, an Ok goes on.
Question(res, next) == IF res = "Err" THEN "failed" ELSE next

\* fn run as it would be if it checked the exit status of the child.
run_checked(outcome) == IF outcome = "zero" THEN "Ok" ELSE "Err"

\* fn run: Command::output()? fails only when the child cannot be spawned;
\* the exit status of the child is not looked at.
run(outcome) == IF outcome = "spawn_err" THEN "Err" ELSE "Ok"

\* Result of an operation of std::fs or std::env, or of serde_json.
IoResult(ok) == IF ok THEN "Ok" ELSE "Err"

\* What a child process can do: not start, exit 0 (only when it has what it
\* needs), or exit with a failure status.
ChildOutcomes(can_succeed) ==
    {"spawn_err", "nonzero"} \cup (IF can_succeed THEN {"zero"} ELSE {})

\* One step of main: the call is made, and main either goes on or returns
\* (an Err from main exits with status 1, the final Ok(()) with status 0).
Step(step, cmd, out, res) ==
    /\ calls' = Append(calls, [step |-> step, cmd |-> cmd, cwd |-> cwd,
                               res |-> res])
    /\ last_out' = out
    /\ pc' = Question(res, Succ(step))
    /\ exitCode' = CASE Question(res, Succ(step)) = "failed" -> 1
                      [] Question(res, Succ(step)) = "done" -> 0
                      [] OTHER -> exitCode

InTree == cwd \in DOMAIN tree

(***************************************************************************)
(* Actions: the statements of main                                         *)
(***************************************************************************)
\* line 81-82: Cli::parse(); a usage error exits with status 2.
Parse ==
    /\ pc = "parse"
    /\ LET rt == IF argv.runtime.given THEN from_str(argv.runtime.value)
                 ELSE "none"
       IN  IF rt = "none"
           THEN /\ pc' = "usage"
                /\ exitCode' = 2
                /\ UNCHANGED <<runtime, target, local>>
           ELSE /\ runtime' = rt
                /\ target' = IF argv.target.given THEN argv.target.value
                             ELSE DefaultTarget
                /\ local' = [local EXCEPT !.runtime_source_code_path =
                                              runtime_source_code_path(rt)]
                /\ pc' = "exists"
                /\ UNCHANGED exitCode
    /\ UNCHANGED <<run_no, argv, cwd, calls, stdout, dirs, files, tree,
                   last_out, history>>

\* line 85
CheckCloneDir ==
    /\ pc = "exists"
    /\ calls' = Append(calls, [step |-> "exists",
                               cmd |-> local.runtime_source_code_path,
                               cwd |-> cwd,
                               res |-> IF exists(local.runtime_source_code_path)
                                       THEN "true" ELSE "false"])
    /\ last_out' = "ok"
    /\ pc' = IF NeedsClone(local.runtime_source_code_path)
             THEN "clone" ELSE "chdir_in"
    /\ UNCHANGED <<run_no, argv, runtime, target, local, cwd, stdout, exitCode,
                   dirs, files, tree, history>>

\* lines 86-89: git clone <github> <path>
Clone ==
    /\ pc = "clone"
    /\ LET dir == Walk(cwd, local.runtime_source_code_path)
       IN  \E o \in ChildOutcomes(~exists(local.runtime_source_code_path)) :
             /\ Step("clone",
                     <<"git", "clone", github(runtime),
                       PathStr(local.runtime_source_code_path)>>,
                     o, run(o))
             /\ IF o = "zero"
                THEN /\ dirs' = dirs \cup Prefixes(dir)
                     /\ tree' = Put(tree, dir, [head |-> "default"])
                ELSE UNCHANGED <<dirs, tree>>
    /\ UNCHANGED <<run_no, argv, runtime, target, local, cwd, stdout, files,
                   history>>

\* env::set_current_dir(rel)?
set_current_dir(step, rel) ==
    \E ok \in {IsDir(Walk(cwd, rel)), FALSE} :
        /\ Step(step, rel, IF ok THEN "ok" ELSE "io_err", IoResult(ok))
        /\ cwd' = IF ok THEN Walk(cwd, rel) ELSE cwd

\* lines 92-96
ChdirIn ==
    /\ pc = "chdir_in"
    /\ set_current_dir("chdir_in", local.runtime_source_code_path)
    /\ local' = [local EXCEPT !.runtime_manifest = runtime_manifest(runtime),
                              !.runtime_lowercase_name = lowercase_name(runtime)]
    /\ UNCHANGED <<run_no, argv, runtime, target, stdout, dirs, files, tree,
                   history>>

\* line 98: git fetch --all
Fetch ==
    /\ pc = "fetch"
    /\ \E o \in ChildOutcomes(InTree) :
         Step("fetch", <<"git", "fetch", "--all">>, o, run(o))
    /\ UNCHANGED <<run_no, argv, runtime, target, local, cwd, stdout, dirs,
                   files, tree, history>>

\* line 99: git checkout <target>
Checkout ==
    /\ pc = "checkout"
    /\ \E o \in ChildOutcomes(InTree) :
         /\ Step("checkout", <<"git", "checkout", target>>, o, run(o))
         /\ tree' = IF o = "zero"
                    THEN [tree EXCEPT ![cwd] = [head |-> target]]
                    ELSE tree
    /\ UNCHANGED <<run_no, argv, runtime, target, local, cwd, stdout, dirs,
                   files, history>>

\* lines 100-110: cargo clean --release --manifest-path <manifest> -p <pkg>.
\* Whether cleaning the package also removes the wbuild output is left open.
Clean ==
    /\ pc = "clean"
    /\ \E o \in ChildOutcomes(InTree), removes \in BOOLEAN :
         /\ Step("clean",
                 <<"cargo", "clean", "--release", "--manifest-path",
                   PathStr(local.runtime_manifest), "-p",
                   local.runtime_lowercase_name \o "-runtime">>,
                 o, run(o))
         /\ LET out == Walk(cwd, build_output_in_tree(local.runtime_lowercase_name))
            IN  files' = IF o = "zero" /\ removes /\ out \in DOMAIN files
                         THEN Remove(files, out) ELSE files
    /\ UNCHANGED <<run_no, argv, runtime, target, local, cwd, stdout, dirs,
                   tree, history>>

\* lines 111-121: cargo b --release --manifest-path <manifest> --features evm-tracing
Build ==
    /\ pc = "build"
    /\ \E o \in ChildOutcomes(InTree) :
         /\ Step("build",
                 <<"cargo", "b", "--release", "--manifest-path",
                   PathStr(local.runtime_manifest), "--features", "evm-tracing">>,
                 o, run(o))
         /\ LET out == Walk(cwd, build_output_in_tree(local.runtime_lowercase_name))
            IN  IF o = "zero"
                THEN /\ files' = Put(files, out,
                                     [kind |-> "wasm", ref |-> tree[cwd].head,
                                      run |-> run_no])
                     /\ dirs' = dirs \cup Prefixes(Parent(out))
                ELSE UNCHANGED <<files, dirs>>
    /\ UNCHANGED <<run_no, argv, runtime, target, local, cwd, stdout, tree,
                   history>>

\* lines 123-127
ChdirOut ==
    /\ pc = "chdir_out"
    /\ set_current_dir("chdir_out", RestoreDir)
    /\ local' = [local EXCEPT
                   !.name_prefix = name_prefix(local.runtime_lowercase_name, target),
                   !.wasms_dir = wasms_dir(local.runtime_lowercase_name),
                   !.digests_dir = digests_dir(local.runtime_lowercase_name)]
    /\ UNCHANGED <<run_no, argv, runtime, target, stdout, dirs, files, tree,
                   history>>

\* fn create_dir_unchecked
create_dir_unchecked(step, dir) ==
    IF exists(dir)
    THEN /\ Step(step, dir, "present", "Ok")
         /\ UNCHANGED dirs
    ELSE \E ok \in BOOLEAN :
           /\ Step(step, dir, IF ok THEN "ok" ELSE "io_err", IoResult(ok))
           /\ dirs' = IF ok THEN dirs \cup Prefixes(Walk(cwd, dir)) ELSE dirs

\* line 129
MkdirWasms ==
    /\ pc = "mkdir_wasms"
    /\ create_dir_unchecked("mkdir_wasms", local.wasms_dir)
    /\ UNCHANGED <<run_no, argv, runtime, target, local, cwd, stdout, files,
                   tree, history>>

\* lines 130-133
MkdirDigests ==
    /\ pc = "mkdir_digests"
    /\ create_dir_unchecked("mkdir_digests", local.digests_dir)
    /\ local' = [local EXCEPT
                   !.wasm_path = wasm_path(local.wasms_dir, local.name_prefix),
                   !.digest_path = digest_path(local.digests_dir, local.name_prefix)]
    /\ UNCHANGED <<run_no, argv, runtime, target, cwd, stdout, files, tree,
                   history>>

\* fs::rename succeeds only if the source exists and the destination's
\* directory exists.
CanRename(src, dst) ==
    /\ Walk(cwd, src) \in DOMAIN files
    /\ IsDir(Parent(Walk(cwd, dst)))

\* lines 135-143
Rename ==
    /\ pc = "rename"
    /\ LET src == build_output(runtime, local.runtime_lowercase_name)
           dst == local.wasm_path
       IN  \E ok \in {CanRename(src, dst), FALSE} :
             /\ Step("rename", src, IF ok THEN "ok" ELSE "io_err", IoResult(ok))
             /\ files' = IF ok
                         THEN Put(Remove(files, Walk(cwd, src)), Walk(cwd, dst),
                                  files[Walk(cwd, src)])
                         ELSE files
    /\ UNCHANGED <<run_no, argv, runtime, target, local, cwd, stdout, dirs,
                   tree, history>>

\* line 145: Subwasm::new returns the loaded runtime or does not return at all
\* (it panics when the file cannot be loaded).
LoadWasm ==
    /\ pc = "subwasm"
    /\ \E ok \in {Walk(cwd, local.wasm_path) \in DOMAIN files, FALSE} :
         /\ calls' = Append(calls, [step |-> "subwasm", cmd |-> local.wasm_path,
                                    cwd |-> cwd,
                                    res |-> IF ok THEN "Ok" ELSE "Panic"])
         /\ last_out' = IF ok THEN "ok" ELSE "panic"
         /\ pc' = IF ok THEN Succ("subwasm") ELSE "failed"
         /\ exitCode' = IF ok THEN exitCode ELSE 101
         /\ local' = IF ok
                     THEN [local EXCEPT !.wasm = files[Walk(cwd, local.wasm_path)]]
                     ELSE local
    /\ UNCHANGED <<run_no, argv, runtime, target, cwd, stdout, dirs, files,
                   tree, history>>

\* line 146: File::create(&digest_path)?
CreateDigest ==
    /\ pc = "create"
    /\ \E ok \in {IsDir(Parent(Walk(cwd, local.digest_path))), FALSE} :
         /\ Step("create", local.digest_path,
                 IF ok THEN "ok" ELSE "io_err", IoResult(ok))
         /\ files' = IF ok THEN Put(files, Walk(cwd, local.digest_path), EmptyFile)
                     ELSE files
    /\ UNCHANGED <<run_no, argv, runtime, target, local, cwd, stdout, dirs,
                   tree, history>>

\* line 148: serde_json::to_writer(runtime_info, wasm.runtime_info())?
Serialize ==
    /\ pc = "serialize"
    /\ \E ok \in BOOLEAN :
         /\ Step("serialize", local.digest_path,
                 IF ok THEN "ok" ELSE "io_err", IoResult(ok))
         /\ files' = IF ok
                     THEN Put(files, Walk(cwd, local.digest_path),
                              [local.wasm EXCEPT !.kind = "digest"])
                     ELSE files
    /\ UNCHANGED <<run_no, argv, runtime, target, local, cwd, stdout, dirs,
                   tree, history>>

\* lines 150-153
PrintPaths ==
    /\ pc = "print"
    /\ Step("print", <<>>, "ok", "Ok")
    /\ stdout' = <<"Generated WASM:   " \o PathStr(local.wasm_path),
                   "Generated digest: " \o PathStr(local.digest_path)>>
    /\ UNCHANGED <<run_no, argv, runtime, target, local, cwd, dirs, files,
                   tree, history>>

Ended == pc \in {"done", "failed", "usage"}

\* The tool is run again from the same start directory, on the file system
\* the earlier runs left behind.
Rerun ==
    /\ Ended
    /\ run_no < MaxRuns
    /\ run_no' = run_no + 1
    /\ argv' \in Argv
    /\ pc' = "parse"
    /\ runtime' = "none"
    /\ target' = ""
    /\ local' = NoLocal
    /\ cwd' = <<>>
    /\ calls' = <<>>
    /\ stdout' = <<>>
    /\ exitCode' = -1
    /\ last_out' = "none"
    /\ history' = IF local.digest_path # <<>>
                  THEN history \cup {[runtime |-> runtime, target |-> target,
                                      wasm_path |-> local.wasm_path,
                                      digest_path |-> local.digest_path]}
                  ELSE history
    /\ UNCHANGED <<dirs, files, tree>>

Init ==
    /\ run_no = 1
    /\ argv \in Argv
    /\ pc = "parse"
    /\ runtime = "none"
    /\ target = ""
    /\ local = NoLocal
    /\ cwd = <<>>
    /\ calls = <<>>
    /\ stdout = <<>>
    /\ exitCode = -1
    /\ last_out = "none"
    /\ dirs = {}
    /\ files = <<>>
    /\ tree = <<>>
    /\ history = {}

Next ==
    \/ Parse
    \/ CheckCloneDir
    \/ Clone
    \/ ChdirIn
    \/ Fetch
    \/ Checkout
    \/ Clean
    \/ Build
    \/ ChdirOut
    \/ MkdirWasms
    \/ MkdirDigests
    \/ Rename
    \/ LoadWasm
    \/ CreateDigest
    \/ Serialize
    \/ PrintPaths
    \/ Rerun

Spec == Init /\ [][Next]_vars

(***************************************************************************)
(* Properties                                                              *)
(***************************************************************************)
Called(step) == \E i \in 1..Len(calls) : calls[i].step = step
CallOf(step) == calls[CHOOSE i \in 1..Len(calls) : calls[i].step = step]
IndexOf(step) == CHOOSE i \in 1..Len(calls) : calls[i].step = step
LastCall == calls[Len(calls)]
Failed(c) == c.res \in {"Err", "Panic"}

\* Every statement of main after the existence check, in program order.
AllSteps ==
    <<"clone", "chdir_in", "fetch", "checkout", "clean", "build", "chdir_out",
      "mkdir_wasms", "mkdir_digests", "rename", "subwasm", "create",
      "serialize", "print">>

\* The lowercase names, written out.
LowercaseText(v) ==
    CASE v = "Darwinia" -> "darwinia"
      [] v = "Crab"     -> "crab"
      [] v = "Pangoro"  -> "pangoro"
      [] v = "Pangolin" -> "pangolin"

\* C1: fail-fast.  A step that returns an error is the last step of its run:
\* nothing is executed after it, no step is executed twice, nothing is
\* printed and the exit code is non-zero; the exit code is 0 only when every
\* step through the printing of the two paths was executed and returned Ok.
C1_FailFast ==
    /\ \A i \in 1..Len(calls) :
         Failed(calls[i]) =>
            /\ i = Len(calls)
            /\ pc = "failed"
            /\ exitCode > 0
            /\ stdout = <<>>
    /\ Cardinality({calls[i].step : i \in 1..Len(calls)}) = Len(calls)
    /\ pc = "failed" => exitCode > 0 /\ stdout = <<>> /\ Failed(LastCall)
    /\ exitCode = 0 =>
         /\ pc = "done"
         /\ Len(stdout) = 2
         /\ \A k \in 2..Len(AllSteps) :
              Called(AllSteps[k]) /\ CallOf(AllSteps[k]).res = "Ok"
    /\ pc = "done" => exitCode = 0

\* C1 witness: a run aborted by a failed rename after five child processes ran.
C1_Witness ==
    /\ pc = "failed"
    /\ exitCode = 1
    /\ LastCall.step = "rename"
    /\ LastCall.res = "Err"
    /\ Called("build")

\* C2: a clone directory that exists when the run starts is never cloned
\* into; one that does not exist is cloned exactly once, from the variant's
\* GitHub URL into build/<repository>, before fetch and checkout.
C2_CloneOnlyWhenAbsent ==
    Len(calls) >= 1 =>
      /\ calls[1].step = "exists"
      /\ calls[1].cmd = <<"build", repository(runtime)>>
      /\ Len(calls) = 1 =>
           (calls[1].res = "true" <=> <<"build", repository(runtime)>> \in dirs)
      /\ calls[1].res = "true" => ~Called("clone") /\ pc # "clone"
      /\ calls[1].res = "false" =>
           /\ Len(calls) = 1 => pc = "clone"
           /\ Len(calls) >= 2 =>
                /\ calls[2].step = "clone"
                /\ calls[2].cmd =
                     <<"git", "clone",
                       "https://github.com/darwinia-network/" \o repository(runtime),
                       "build/" \o repository(runtime)>>
                /\ \A i \in 3..Len(calls) : calls[i].step # "clone"

\* C2 witness: a run that found the clone directory of an earlier run and
\* went on to fetch.
C2_Witness ==
    /\ run_no = 2
    /\ Len(calls) >= 1
    /\ calls[1].res = "true"
    /\ Called("fetch")

\* C3 (state part): a digest file is created only after the artifact has been
\* moved, and a run whose rename failed has created no digest file.
C3_DigestAfterMove ==
    /\ Called("create") =>
         /\ Called("rename")
         /\ CallOf("rename").res = "Ok"
         /\ IndexOf("rename") < IndexOf("create")
    /\ (Called("rename") /\ CallOf("rename").res = "Err") =>
         /\ pc = "failed"
         /\ ~Called("create")
         /\ ~Called("serialize")

\* C3 (step part): with the build output absent, the rename step fails, the
\* run aborts and the file system is left as it was.
C3_AbsentOutputStep ==
    (pc = "rename"
       /\ build_output(runtime, LowercaseText(runtime)) \notin DOMAIN files) =>
        /\ pc' = "failed"
        /\ exitCode' = 1
        /\ files' = files
        /\ dirs' = dirs

\* C3: a missing build output makes the relocation fail without a digest
\* file being created, and the digest is created only after the move.
C3_NoDigestWithoutArtifact == [](C3_DigestAfterMove) /\ [][C3_AbsentOutputStep]_vars

\* C3 witness: the build exited with a failure, nothing was produced, and the
\* run was aborted by the rename with no digest file at its destination.
C3_Witness ==
    /\ pc = "failed"
    /\ LastCall.step = "rename"
    /\ last_out = "io_err"
    /\ build_output(runtime, LowercaseText(runtime)) \notin DOMAIN files
    /\ local.digest_path \notin DOMAIN files

\* Two names that differ at most in the case of their letters.
SameLetters(a, b) ==
    /\ Len(a) = Len(b)
    /\ \A i \in 1..Len(a) :
         \E k \in 1..Len(UpperAlpha) :
            {a[i], b[i]} \subseteq {UpperAlpha[k], LowerAlpha[k]}

\* For each value of --runtime that is tried, the variants it is a casing of.
CasingOf ==
    [a \in {x.runtime.value : x \in Argv} |->
        {v \in Runtime : SameLetters(name(v), a)}]

Rank(step) == CHOOSE k \in 1..Len(AllSteps) : AllSteps[k] = step

\* C5: the executed steps are one unbroken stretch of the fixed order clone,
\* fetch --all, checkout <target>, clean, build, output directories, move,
\* digest, print, starting at the clone or right after it; so each is
\* executed at most once and clean and build always follow fetch and checkout.
C5_LinearOrder ==
    /\ Len(calls) >= 2 => calls[2].step \in {"clone", "chdir_in"}
    /\ \A i \in 2..(Len(calls) - 1) :
         Rank(calls[i + 1].step) = Rank(calls[i].step) + 1
    /\ \A s \in {"clean", "build"} :
         Called(s) =>
            /\ Called("fetch") /\ IndexOf("fetch") < IndexOf(s)
            /\ CallOf("fetch").cmd = <<"git", "fetch", "--all">>
            /\ Called("checkout") /\ IndexOf("checkout") < IndexOf(s)
            /\ CallOf("checkout").cmd = <<"git", "checkout", target>>
    /\ pc \in {"clean", "build"} =>
         LastCall.step = IF pc = "clean" THEN "checkout" ELSE "clean"

\* C5 witness: a complete run that began with a clone.
C5_Witness ==
    /\ pc = "done"
    /\ Called("clone")
    /\ Len(calls) = Len(AllSteps) + 1

\* C6: clean and build run in build/<repository>; the output directories, the
\* move, the digest and the exit happen in the start directory.
C6_WorkingDirectory ==
    /\ \A i \in 1..Len(calls) :
         /\ calls[i].step \in {"clean", "build"} =>
               calls[i].cwd = <<"build", repository(runtime)>>
         /\ calls[i].step \in {"mkdir_wasms", "mkdir_digests", "rename",
                               "subwasm", "create", "serialize", "print"} =>
               calls[i].cwd = <<>>
    /\ pc \in {"clean", "build"} => cwd = <<"build", repository(runtime)>>
    /\ pc = "done" => cwd = <<>>

\* C6 witness: a run that built inside the source tree and ended successfully
\* in the start directory.
C6_Witness ==
    /\ pc = "done"
    /\ Called("build")
    /\ CallOf("build").cwd # <<>>
    /\ cwd = <<>>

\* C7: a child process that was started and exited with a failure status
\* counts as success: the run is not aborted and stands at the next step;
\* only a child that could not be spawned aborts the run.
C7_SpawnOnly ==
    (Len(calls) >= 1
       /\ LastCall.step \in {"clone", "fetch", "checkout", "clean", "build"}) =>
        /\ last_out \in {"zero", "nonzero"} =>
              /\ LastCall.res = "Ok"
              /\ exitCode = -1
              /\ pc = CASE LastCall.step = "clone"    -> "chdir_in"
                        [] LastCall.step = "fetch"    -> "checkout"
                        [] LastCall.step = "checkout" -> "clean"
                        [] LastCall.step = "clean"    -> "build"
                        [] LastCall.step = "build"    -> "chdir_out"
        /\ last_out = "spawn_err" =>
              LastCall.res = "Err" /\ pc = "failed"

\* C7 witness: the build exited with a failure status and the run stands at
\* the statement after it.
C7_Witness ==
    /\ Len(calls) >= 1
    /\ LastCall.step = "build"
    /\ last_out = "nonzero"
    /\ pc = "chdir_out"

\* C8: the artifact name and the two destinations are the stated functions of
\* (variant, target), and equal what an earlier run with the same pair
\* computed, whatever that run left behind.
C8_DeterministicPaths ==
    /\ local.name_prefix # "" =>
         local.name_prefix =
            LowercaseText(runtime) \o "-" \o target \o "-tracing-runtime"
    /\ local.digest_path # <<>> =>
         /\ PathStr(local.wasm_path) =
               "overridden-runtimes/" \o LowercaseText(runtime) \o "/wasms/"
                  \o LowercaseText(runtime) \o "-" \o target
                  \o "-tracing-runtime.compact.compressed.wasm"
         /\ PathStr(local.digest_path) =
               "overridden-runtimes/" \o LowercaseText(runtime) \o "/digests/"
                  \o LowercaseText(runtime) \o "-" \o target
                  \o "-tracing-runtime.json"
         /\ (runtime = "Pangolin" /\ target = "v1.2.3") =>
               /\ local.name_prefix = "pangolin-v1.2.3-tracing-runtime"
               /\ PathStr(local.wasm_path) =
                    "overridden-runtimes/pangolin/wasms/pangolin-v1.2.3-tracing-runtime.compact.compressed.wasm"
               /\ PathStr(local.digest_path) =
                    "overridden-runtimes/pangolin/digests/pangolin-v1.2.3-tracing-runtime.json"
         /\ \A h \in history :
               (h.runtime = runtime /\ h.target = target) =>
                   /\ h.wasm_path = local.wasm_path
                   /\ h.digest_path = local.digest_path
    /\ pc = "done" =>
         /\ local.wasm_path \in DOMAIN files
         /\ local.digest_path \in DOMAIN files
         /\ stdout = <<"Generated WASM:   " \o PathStr(local.wasm_path),
                       "Generated digest: " \o PathStr(local.digest_path)>>

\* C8 witness: Pangolin at v1.2.3 is published a second time.
C8_Witness ==
    /\ pc = "done"
    /\ runtime = "Pangolin"
    /\ target = "v1.2.3"
    /\ \E h \in history : h.runtime = runtime /\ h.target = target

\* The registry, variant by variant.
RegistryTable ==
    \A v \in Runtime :
       /\ Str(name(v)) = v
       /\ lowercase_name(v) = LowercaseText(v)
       /\ repository(v) # "" /\ github(v) # "" /\ path(v) # <<>>
       /\ github(v) = "https://github.com/darwinia-network/" \o repository(v)
       /\ v \in {"Darwinia", "Crab"} =>
             /\ repository(v) = "darwinia"
             /\ PathStr(path(v)) = "runtime/" \o LowercaseText(v)
       /\ v \in {"Pangoro", "Pangolin"} =>
             /\ repository(v) = "darwinia-common"
             /\ PathStr(path(v)) = "node/runtime/" \o LowercaseText(v)

\* C9: the registry gives every variant a non-empty repository, URL and
\* sub-path: darwinia and runtime/<name> for Darwinia and Crab,
\* darwinia-common and node/runtime/<name> for Pangoro and Pangolin; and a
\* run uses those values for its clone directory, clone URL and manifest.
C9_Registry ==
    /\ RegistryTable
    /\ runtime \in {"Darwinia", "Crab"} =>
         /\ local.runtime_source_code_path = <<"build", "darwinia">>
         /\ Called("clone") =>
               CallOf("clone").cmd[3] = "https://github.com/darwinia-network/darwinia"
         /\ local.runtime_manifest # <<>> =>
               PathStr(local.runtime_manifest) =
                  "runtime/" \o LowercaseText(runtime) \o "/Cargo.toml"
    /\ runtime \in {"Pangoro", "Pangolin"} =>
         /\ local.runtime_source_code_path = <<"build", "darwinia-common">>
         /\ Called("clone") =>
               CallOf("clone").cmd[3] =
                  "https://github.com/darwinia-network/darwinia-common"
         /\ local.runtime_manifest # <<>> =>
               PathStr(local.runtime_manifest) =
                  "node/runtime/" \o LowercaseText(runtime) \o "/Cargo.toml"

\* C9 witness: Pangoro was looked up, cloned and its manifest path computed.
C9_Witness ==
    /\ runtime = "Pangoro"
    /\ Called("clone")
    /\ local.runtime_manifest # <<>>

\* C10: the artifact a successful run publishes was built by that run from a
\* source tree on which the target is checked out.
C10_Provenance ==
    pc = "done" =>
        /\ local.wasm_path \in DOMAIN files
        /\ files[local.wasm_path].kind = "wasm"
        /\ files[local.wasm_path].run = run_no
        /\ files[local.wasm_path].ref = target

====
